---- MODULE Spec2Model ----
(***************************************************************************)
(* Model of src/derive_utils.rs: the argument parser parse_fn_args and the *)
(* module constructor make_module (Py_3 and legacy variants).              *)
(*                                                                         *)
(* Indices are the source's 0-based indices; TLA+ sequences are 1-based,   *)
(* so params[i + 1] is the source's params[i].                             *)
(***************************************************************************)
EXTENDS Integers, Sequences, FiniteSets, TLC

\* ------------------------------------------------------------------ bounds
MaxParams == 2
MaxArgs == 3
MaxKw == 2

\* pools the inputs are drawn from
ParamNames == <<"a", "b", "c", "d", "e">>
ExtraKeys == {"z", "w"}
ArgVals == <<"x1", "x2", "x3", "x4", "x5">>
FNames == {"None", "f"}
None == "None"

Threads == {"t1", "t2"}

VARIABLES
  \* parse_fn_args: the arguments of one call, and what the caller sees
  fname, params, args, kwargs, accept_args, accept_kwargs, output, result,
  \* make_module (Py_3): per calling thread
  pc, MODULE_DEF, module, pool, ret, log, create_ok, wrap_ok, doc_ok, init_ok,
  \* make_module (not Py_3): per calling thread, same step outcomes
  pcL, moduleL, poolL, logL

argVars == <<fname, params, args, kwargs, accept_args, accept_kwargs, output, result>>
envVars == <<create_ok, wrap_ok, doc_ok, init_ok>>
py3Vars == <<pc, MODULE_DEF, module, pool, ret, log>>
legacyVars == <<pcL, moduleL, poolL, logL>>
vars == <<argVars, envVars, py3Vars, legacyVars>>

\* ------------------------------------------------------- parse_fn_args
\* the value a caller passes under keyword k
KwVal(k) == "y_" \o k

ParamLists ==
  UNION {{[i \in 1..n |-> [name |-> ParamNames[i],
                           is_optional |-> f[i][1],
                           kw_only |-> f[i][2]]] :
            f \in [1..n -> BOOLEAN \X BOOLEAN]} : n \in 0..MaxParams}

KeyPool == {ParamNames[i] : i \in 1..MaxParams} \cup ExtraKeys

\* a dict's items in iteration order: distinct keys
KeySeqs ==
  UNION {{s \in [1..n -> KeyPool] : \A i, j \in 1..n : i # j => s[i] # s[j]} :
           n \in 0..MaxKw}

Dicts == {[i \in DOMAIN s |-> [key |-> s[i], value |-> KwVal(s[i])]] : s \in KeySeqs}

\* Option<&PyDict>
KwargsInputs == {[present |-> FALSE, items |-> <<>>]} \cup
                {[present |-> TRUE, items |-> d] : d \in Dicts}

ArgTuples == {SubSeq(ArgVals, 1, n) : n \in 0..MaxArgs}

\* PyResult<()>: Ok, or a TypeError whose message is kept as its template
\* (kind) and the values formatted into it
OkResult ==
  [kind |-> "Ok", callee |-> "", parens |-> "", max |-> 0, plural |-> "",
   given |-> 0, name |-> "", pos |-> 0, key |-> ""]

Pending == [OkResult EXCEPT !.kind = "Pending"]

nargs == Len(args)

nkeywords == IF kwargs.present THEN Len(kwargs.items) ELSE 0

TooManyCheck_ge == ~accept_args /\ ~accept_kwargs /\ (nargs + nkeywords >= Len(params))

TooManyCheck == ~accept_args /\ ~accept_kwargs /\ (nargs + nkeywords > Len(params))

\* "{}{} takes at most {} argument{} ({} given)"
TooManyErr ==
  [OkResult EXCEPT !.kind = "TooManyArguments",
                   !.callee = IF fname = None THEN "function" ELSE fname,
                   !.parens = IF fname # None THEN "()" ELSE "",
                   !.max = Len(params),
                   !.plural = IF Len(params) = 1 THEN "s" ELSE "",
                   !.given = nargs + nkeywords]

\* "Argument given by name ('{}') and position ({})"
DuplicateErr(name, position) ==
  [OkResult EXCEPT !.kind = "DuplicateBinding", !.name = name, !.pos = position]

\* "Required argument ('{}') is keyword only argument"
KwOnlyErr(name) ==
  [OkResult EXCEPT !.kind = "MissingKeywordOnlyArgument", !.name = name]

\* "Required argument ('{}') (pos {}) not found"
NotFoundErr(name, position) ==
  [OkResult EXCEPT !.kind = "MissingPositionalArgument", !.name = name, !.pos = position]

\* "'{}' is an invalid keyword argument for this function"
InvalidKeywordErr(key) ==
  [OkResult EXCEPT !.kind = "UnexpectedKeywordArgument", !.key = key]

\* kwargs.and_then(|d| d.get_item(p.name))
KwargsGetItem(name) ==
  IF kwargs.present /\ \E k \in 1..Len(kwargs.items) : kwargs.items[k].key = name
  THEN LET k == CHOOSE k \in 1..Len(kwargs.items) : kwargs.items[k].key = name
       IN kwargs.items[k].value
  ELSE None

KeywordArm_offbyone(i, p, kwarg, out) ==
  LET out1 == [out EXCEPT ![i + 1] = kwarg] IN
  IF i + 1 < nargs
  THEN [err |-> DuplicateErr(p.name, i + 1), out |-> out1, used |-> 1]
  ELSE [err |-> OkResult, out |-> out1, used |-> 1]

\* the Some(kwarg) arm of the match
KeywordArm(i, p, kwarg, out) ==
  LET out1 == [out EXCEPT ![i + 1] = kwarg] IN
  IF i < nargs
  THEN [err |-> DuplicateErr(p.name, i + 1), out |-> out1, used |-> 1]
  ELSE [err |-> OkResult, out |-> out1, used |-> 1]

NoKeywordArm_positionalFirst(i, p, out) ==
  IF i < nargs
  THEN [err |-> OkResult, out |-> [out EXCEPT ![i + 1] = args[i + 1]], used |-> 0]
  ELSE IF p.kw_only
  THEN IF ~p.is_optional
       THEN [err |-> KwOnlyErr(p.name), out |-> out, used |-> 0]
       ELSE [err |-> OkResult, out |-> [out EXCEPT ![i + 1] = None], used |-> 0]
  ELSE IF ~p.is_optional
       THEN [err |-> NotFoundErr(p.name, i + 1), out |-> [out EXCEPT ![i + 1] = None], used |-> 0]
       ELSE [err |-> OkResult, out |-> [out EXCEPT ![i + 1] = None], used |-> 0]

NoKeywordArm_kwOnlyUnchecked(i, p, out) ==
  IF p.kw_only
  THEN [err |-> OkResult, out |-> [out EXCEPT ![i + 1] = None], used |-> 0]
  ELSE IF i < nargs
  THEN [err |-> OkResult, out |-> [out EXCEPT ![i + 1] = args[i + 1]], used |-> 0]
  ELSE IF ~p.is_optional
       THEN [err |-> NotFoundErr(p.name, i + 1), out |-> [out EXCEPT ![i + 1] = None], used |-> 0]
       ELSE [err |-> OkResult, out |-> [out EXCEPT ![i + 1] = None], used |-> 0]

NoKeywordArm_zeroBasedPos(i, p, out) ==
  IF p.kw_only
  THEN IF ~p.is_optional
       THEN [err |-> KwOnlyErr(p.name), out |-> out, used |-> 0]
       ELSE [err |-> OkResult, out |-> [out EXCEPT ![i + 1] = None], used |-> 0]
  ELSE IF i < nargs
  THEN [err |-> OkResult, out |-> [out EXCEPT ![i + 1] = args[i + 1]], used |-> 0]
  ELSE IF ~p.is_optional
       THEN [err |-> NotFoundErr(p.name, i), out |-> [out EXCEPT ![i + 1] = None], used |-> 0]
       ELSE [err |-> OkResult, out |-> [out EXCEPT ![i + 1] = None], used |-> 0]

\* the None arm of the match
NoKeywordArm(i, p, out) ==
  IF p.kw_only
  THEN IF ~p.is_optional
       THEN [err |-> KwOnlyErr(p.name), out |-> out, used |-> 0]
       ELSE [err |-> OkResult, out |-> [out EXCEPT ![i + 1] = None], used |-> 0]
  ELSE IF i < nargs
  THEN [err |-> OkResult, out |-> [out EXCEPT ![i + 1] = args[i + 1]], used |-> 0]
  ELSE IF ~p.is_optional
       THEN [err |-> NotFoundErr(p.name, i + 1), out |-> [out EXCEPT ![i + 1] = None], used |-> 0]
       ELSE [err |-> OkResult, out |-> [out EXCEPT ![i + 1] = None], used |-> 0]

\* for (i, (p, out)) in params.iter().zip(output).enumerate()
RECURSIVE ParamLoop(_, _, _)
ParamLoop(i, out, used_keywords) ==
  IF i >= Len(params) \/ i >= Len(out)
  THEN [err |-> OkResult, out |-> out, used |-> used_keywords]
  ELSE LET p == params[i + 1]
           kwarg == KwargsGetItem(p.name)
           step == IF kwarg # None THEN KeywordArm(i, p, kwarg, out)
                                   ELSE NoKeywordArm(i, p, out)
       IN IF step.err.kind # "Ok"
          THEN [err |-> step.err, out |-> step.out, used |-> used_keywords + step.used]
          ELSE ParamLoop(i + 1, step.out, used_keywords + step.used)

ExtraneousScan_anyKey(k) ==
  IF k > Len(kwargs.items) THEN OkResult
  ELSE InvalidKeywordErr(kwargs.items[k].key)

\* for item in kwargs.unwrap().items().iter(); the runtime's keyword
\* mappings have string keys, so the two try_from conversions succeed
RECURSIVE ExtraneousScan(_)
ExtraneousScan(k) ==
  IF k > Len(kwargs.items) THEN OkResult
  ELSE LET key == kwargs.items[k].key IN
       IF ~ \E j \in 1..Len(params) : params[j].name = key
       THEN InvalidKeywordErr(key)
       ELSE ExtraneousScan(k + 1)

ParseFnArgsBody_scanFirst ==
  IF TooManyCheck
  THEN [err |-> TooManyErr, out |-> output]
  ELSE IF ~accept_kwargs /\ kwargs.present /\ ExtraneousScan(1).kind # "Ok"
  THEN [err |-> ExtraneousScan(1), out |-> output]
  ELSE LET r == ParamLoop(0, output, 0) IN
       IF r.err.kind # "Ok"
       THEN [err |-> r.err, out |-> r.out]
       ELSE [err |-> OkResult, out |-> r.out]

\* the whole body: the returned PyResult and the caller's output array
ParseFnArgsBody ==
  IF TooManyCheck
  THEN [err |-> TooManyErr, out |-> output]
  ELSE LET r == ParamLoop(0, output, 0) IN
       IF r.err.kind # "Ok"
       THEN [err |-> r.err, out |-> r.out]
       ELSE IF ~accept_kwargs /\ r.used # nkeywords
       THEN [err |-> ExtraneousScan(1), out |-> r.out]
       ELSE [err |-> OkResult, out |-> r.out]

ParseFnArgs ==
  /\ result.kind = "Pending"
  /\ result' = ParseFnArgsBody.err
  /\ output' = ParseFnArgsBody.out
  /\ UNCHANGED <<fname, params, args, kwargs, accept_args, accept_kwargs>>
  /\ UNCHANGED <<envVars, py3Vars, legacyVars>>

\* --------------------------------------------------------- make_module
\* the name each thread's call passes
ModName(t) == IF t = "t1" THEN "m1" ELSE "m2"

\* `log` records, per call, the calls it made and how it left, in order

DropPool_leak(p) == p

\* _pool leaves scope (return or unwinding): GILPool's Drop runs if it was created
DropPool(p) == IF p = "open" THEN "released" ELSE p

LogDrop(p, l) == IF DropPool(p) # p THEN Append(l, "release") ELSE l

\* init_once(); MODULE_DEF.m_name = name.as_ptr()
SetName(t) ==
  /\ pc[t] = "start"
  /\ MODULE_DEF' = [MODULE_DEF EXCEPT !.m_name = ModName(t)]
  /\ log' = [log EXCEPT ![t] = Append(@, "set_name")]
  /\ pc' = [pc EXCEPT ![t] = "create"]
  /\ UNCHANGED <<module, pool, ret>>
  /\ UNCHANGED <<argVars, envVars, legacyVars>>

CreateModule_noNullCheck(t) ==
  /\ pc[t] = "create"
  /\ IF create_ok[t]
     THEN /\ module' = [module EXCEPT ![t] = MODULE_DEF.m_name]
          /\ log' = [log EXCEPT ![t] = Append(@, "create")]
     ELSE /\ module' = [module EXCEPT ![t] = "null"]
          /\ log' = [log EXCEPT ![t] = Append(@, "create_failed")]
  /\ pc' = [pc EXCEPT ![t] = "open_scope"]
  /\ UNCHANGED <<MODULE_DEF, pool, ret>>
  /\ UNCHANGED <<argVars, envVars, legacyVars>>

\* let module = ffi::PyModule_Create(&mut MODULE_DEF); if module.is_null() { return module; }
\* a module object is identified by the m_name it was created from
CreateModule(t) ==
  /\ pc[t] = "create"
  /\ IF create_ok[t]
     THEN /\ module' = [module EXCEPT ![t] = MODULE_DEF.m_name]
          /\ log' = [log EXCEPT ![t] = Append(@, "create")]
          /\ pc' = [pc EXCEPT ![t] = "open_scope"]
          /\ UNCHANGED ret
     ELSE /\ module' = [module EXCEPT ![t] = "null"]
          /\ ret' = [ret EXCEPT ![t] = "null"]
          /\ log' = [log EXCEPT ![t] = @ \o <<"create_failed", "return">>]
          /\ pc' = [pc EXCEPT ![t] = "returned"]
  /\ UNCHANGED <<MODULE_DEF, pool>>
  /\ UNCHANGED <<argVars, envVars, legacyVars>>

\* let _pool = GILPool::new(); let py = Python::assume_gil_acquired();
OpenScope(t) ==
  /\ pc[t] = "open_scope"
  /\ pool' = [pool EXCEPT ![t] = "open"]
  /\ log' = [log EXCEPT ![t] = Append(@, "open")]
  /\ pc' = [pc EXCEPT ![t] = "wrap"]
  /\ UNCHANGED <<MODULE_DEF, module, ret>>
  /\ UNCHANGED <<argVars, envVars, legacyVars>>

WrapHandle_noRestore(t) ==
  /\ pc[t] = "wrap"
  /\ IF wrap_ok[t]
     THEN /\ log' = [log EXCEPT ![t] = Append(@, "wrap")]
          /\ pc' = [pc EXCEPT ![t] = "set_doc"]
          /\ UNCHANGED <<pool, ret>>
     ELSE /\ ret' = [ret EXCEPT ![t] = "null"]
          /\ pool' = [pool EXCEPT ![t] = DropPool(@)]
          /\ log' = [log EXCEPT ![t] =
                       Append(LogDrop(pool[t], Append(@, "wrap_failed")), "return")]
          /\ pc' = [pc EXCEPT ![t] = "returned"]
  /\ UNCHANGED <<MODULE_DEF, module>>
  /\ UNCHANGED <<argVars, envVars, legacyVars>>

\* match py.from_owned_ptr_or_err::<PyModule>(module) { Ok(m) => m,
\*   Err(e) => { e.restore(py); return ptr::null_mut(); } }
WrapHandle(t) ==
  /\ pc[t] = "wrap"
  /\ IF wrap_ok[t]
     THEN /\ log' = [log EXCEPT ![t] = Append(@, "wrap")]
          /\ pc' = [pc EXCEPT ![t] = "set_doc"]
          /\ UNCHANGED <<pool, ret>>
     ELSE /\ ret' = [ret EXCEPT ![t] = "null"]
          /\ pool' = [pool EXCEPT ![t] = DropPool(@)]
          /\ log' = [log EXCEPT ![t] =
                       Append(LogDrop(pool[t], @ \o <<"wrap_failed", "restore">>), "return")]
          /\ pc' = [pc EXCEPT ![t] = "returned"]
  /\ UNCHANGED <<MODULE_DEF, module>>
  /\ UNCHANGED <<argVars, envVars, legacyVars>>

SetDoc_recoverable(t) ==
  /\ pc[t] = "set_doc"
  /\ IF doc_ok[t]
     THEN /\ log' = [log EXCEPT ![t] = Append(@, "doc")]
          /\ pc' = [pc EXCEPT ![t] = "initializer"]
          /\ UNCHANGED <<pool, ret>>
     ELSE /\ pool' = [pool EXCEPT ![t] = DropPool(@)]
          /\ ret' = [ret EXCEPT ![t] = "null"]
          /\ log' = [log EXCEPT ![t] =
                       Append(LogDrop(pool[t], @ \o <<"doc_failed", "restore">>), "return")]
          /\ pc' = [pc EXCEPT ![t] = "returned"]
  /\ UNCHANGED <<MODULE_DEF, module>>
  /\ UNCHANGED <<argVars, envVars, legacyVars>>

\* module.add("__doc__", doc).expect("Failed to add doc for module");
\* a failure panics; the unwinding drops _pool
SetDoc(t) ==
  /\ pc[t] = "set_doc"
  /\ IF doc_ok[t]
     THEN /\ log' = [log EXCEPT ![t] = Append(@, "doc")]
          /\ pc' = [pc EXCEPT ![t] = "initializer"]
          /\ UNCHANGED pool
     ELSE /\ pool' = [pool EXCEPT ![t] = DropPool(@)]
          /\ log' = [log EXCEPT ![t] = LogDrop(pool[t], @ \o <<"doc_failed", "panic">>)]
          /\ pc' = [pc EXCEPT ![t] = "panicked"]
  /\ UNCHANGED <<MODULE_DEF, module, ret>>
  /\ UNCHANGED <<argVars, envVars, legacyVars>>

RunInitializer_nullOnOk(t) ==
  /\ pc[t] = "initializer"
  /\ ret' = [ret EXCEPT ![t] = "null"]
  /\ log' = [log EXCEPT ![t] =
               Append(LogDrop(pool[t], IF init_ok[t] THEN Append(@, "init")
                                       ELSE @ \o <<"init", "restore">>), "return")]
  /\ pool' = [pool EXCEPT ![t] = DropPool(@)]
  /\ pc' = [pc EXCEPT ![t] = "returned"]
  /\ UNCHANGED <<MODULE_DEF, module>>
  /\ UNCHANGED <<argVars, envVars, legacyVars>>

RunInitializer_noRestore(t) ==
  /\ pc[t] = "initializer"
  /\ IF init_ok[t]
     THEN /\ ret' = [ret EXCEPT ![t] = module[t]]
          /\ log' = [log EXCEPT ![t] = Append(LogDrop(pool[t], Append(@, "init")), "return")]
     ELSE /\ ret' = [ret EXCEPT ![t] = "null"]
          /\ log' = [log EXCEPT ![t] = Append(LogDrop(pool[t], Append(@, "init")), "return")]
  /\ pool' = [pool EXCEPT ![t] = DropPool(@)]
  /\ pc' = [pc EXCEPT ![t] = "returned"]
  /\ UNCHANGED <<MODULE_DEF, module>>
  /\ UNCHANGED <<argVars, envVars, legacyVars>>

\* match initializer(py, module) { Ok(_) => module.into_ptr(),
\*   Err(e) => { e.restore(py); ptr::null_mut() } }
RunInitializer(t) ==
  /\ pc[t] = "initializer"
  /\ IF init_ok[t]
     THEN /\ ret' = [ret EXCEPT ![t] = module[t]]
          /\ log' = [log EXCEPT ![t] = Append(LogDrop(pool[t], Append(@, "init")), "return")]
     ELSE /\ ret' = [ret EXCEPT ![t] = "null"]
          /\ log' = [log EXCEPT ![t] =
                       Append(LogDrop(pool[t], @ \o <<"init", "restore">>), "return")]
  /\ pool' = [pool EXCEPT ![t] = DropPool(@)]
  /\ pc' = [pc EXCEPT ![t] = "returned"]
  /\ UNCHANGED <<MODULE_DEF, module>>
  /\ UNCHANGED <<argVars, envVars, legacyVars>>

\* ------------------------------------------------ make_module (not Py_3)
\* init_once(); let _name = ...; let _pool = GILPool::new(); let py = ...
OpenScopeL(t) ==
  /\ pcL[t] = "start"
  /\ poolL' = [poolL EXCEPT ![t] = "open"]
  /\ logL' = [logL EXCEPT ![t] = Append(@, "open")]
  /\ pcL' = [pcL EXCEPT ![t] = "init_module"]
  /\ UNCHANGED moduleL
  /\ UNCHANGED <<argVars, envVars, py3Vars>>

\* let _module = ffi::Py_InitModule(_name, ptr::null_mut()); if _module.is_null() { return; }
InitModuleL(t) ==
  /\ pcL[t] = "init_module"
  /\ IF create_ok[t]
     THEN /\ moduleL' = [moduleL EXCEPT ![t] = ModName(t)]
          /\ logL' = [logL EXCEPT ![t] = Append(@, "create")]
          /\ pcL' = [pcL EXCEPT ![t] = "wrap"]
          /\ UNCHANGED poolL
     ELSE /\ moduleL' = [moduleL EXCEPT ![t] = "null"]
          /\ poolL' = [poolL EXCEPT ![t] = DropPool(@)]
          /\ logL' = [logL EXCEPT ![t] =
                        Append(LogDrop(poolL[t], Append(@, "create_failed")), "return")]
          /\ pcL' = [pcL EXCEPT ![t] = "returned"]
  /\ UNCHANGED <<argVars, envVars, py3Vars>>

\* match py.from_borrowed_ptr_or_err::<PyModule>(_module) { Ok(m) => m,
\*   Err(e) => { e.restore(py); return; } }
WrapHandleL(t) ==
  /\ pcL[t] = "wrap"
  /\ IF wrap_ok[t]
     THEN /\ logL' = [logL EXCEPT ![t] = Append(@, "wrap")]
          /\ pcL' = [pcL EXCEPT ![t] = "set_doc"]
          /\ UNCHANGED poolL
     ELSE /\ poolL' = [poolL EXCEPT ![t] = DropPool(@)]
          /\ logL' = [logL EXCEPT ![t] =
                        Append(LogDrop(poolL[t], @ \o <<"wrap_failed", "restore">>), "return")]
          /\ pcL' = [pcL EXCEPT ![t] = "returned"]
  /\ UNCHANGED moduleL
  /\ UNCHANGED <<argVars, envVars, py3Vars>>

\* _module.add("__doc__", doc).expect("Failed to add doc for module");
SetDocL(t) ==
  /\ pcL[t] = "set_doc"
  /\ IF doc_ok[t]
     THEN /\ logL' = [logL EXCEPT ![t] = Append(@, "doc")]
          /\ pcL' = [pcL EXCEPT ![t] = "initializer"]
          /\ UNCHANGED poolL
     ELSE /\ poolL' = [poolL EXCEPT ![t] = DropPool(@)]
          /\ logL' = [logL EXCEPT ![t] = LogDrop(poolL[t], @ \o <<"doc_failed", "panic">>)]
          /\ pcL' = [pcL EXCEPT ![t] = "panicked"]
  /\ UNCHANGED moduleL
  /\ UNCHANGED <<argVars, envVars, py3Vars>>

RunInitializerL_noRestore(t) ==
  /\ pcL[t] = "initializer"
  /\ logL' = [logL EXCEPT ![t] = Append(LogDrop(poolL[t], Append(@, "init")), "return")]
  /\ poolL' = [poolL EXCEPT ![t] = DropPool(@)]
  /\ pcL' = [pcL EXCEPT ![t] = "returned"]
  /\ UNCHANGED moduleL
  /\ UNCHANGED <<argVars, envVars, py3Vars>>

\* if let Err(e) = initializer(py, _module) { e.restore(py) }
RunInitializerL(t) ==
  /\ pcL[t] = "initializer"
  /\ logL' = [logL EXCEPT ![t] =
                Append(LogDrop(poolL[t],
                               IF init_ok[t] THEN Append(@, "init")
                                             ELSE @ \o <<"init", "restore">>), "return")]
  /\ poolL' = [poolL EXCEPT ![t] = DropPool(@)]
  /\ pcL' = [pcL EXCEPT ![t] = "returned"]
  /\ UNCHANGED moduleL
  /\ UNCHANGED <<argVars, envVars, py3Vars>>

\* the state before any thread has called make_module
InitCalls ==
  /\ pc = [t \in Threads |-> "start"]
  /\ MODULE_DEF = [m_name |-> "null"]
  /\ module = [t \in Threads |-> "unset"]
  /\ pool = [t \in Threads |-> "none"]
  /\ ret = [t \in Threads |-> "unset"]
  /\ log = [t \in Threads |-> <<>>]
  /\ pcL = [t \in Threads |-> "start"]
  /\ moduleL = [t \in Threads |-> "unset"]
  /\ poolL = [t \in Threads |-> "none"]
  /\ logL = [t \in Threads |-> <<>>]

\* ------------------------------------------------------ specifications
\* one call of parse_fn_args on every bounded input
InitArgs ==
  /\ fname \in FNames
  /\ params \in ParamLists
  /\ args \in ArgTuples
  /\ kwargs \in KwargsInputs
  /\ accept_args \in BOOLEAN
  /\ accept_kwargs \in BOOLEAN
  /\ output = [i \in 1..Len(params) |-> None]
  /\ result = Pending
  /\ create_ok = [t \in Threads |-> TRUE]
  /\ wrap_ok = [t \in Threads |-> TRUE]
  /\ doc_ok = [t \in Threads |-> TRUE]
  /\ init_ok = [t \in Threads |-> TRUE]
  /\ InitCalls

NextArgs == ParseFnArgs

SpecArgs == InitArgs /\ [][NextArgs]_vars

\* each thread calls make_module once, in both build variants, under every
\* outcome of the runtime calls and of the initializer
InitModule ==
  /\ fname = None
  /\ params = <<>>
  /\ args = <<>>
  /\ kwargs = [present |-> FALSE, items |-> <<>>]
  /\ accept_args = FALSE
  /\ accept_kwargs = FALSE
  /\ output = <<>>
  /\ result = Pending
  /\ create_ok \in [Threads -> BOOLEAN]
  /\ wrap_ok \in [Threads -> BOOLEAN]
  /\ doc_ok \in [Threads -> BOOLEAN]
  /\ init_ok \in [Threads -> BOOLEAN]
  /\ InitCalls

NextModule ==
  \E t \in Threads :
    \/ SetName(t)
    \/ CreateModule(t)
    \/ OpenScope(t)
    \/ WrapHandle(t)
    \/ SetDoc(t)
    \/ RunInitializer(t)
    \/ OpenScopeL(t)
    \/ InitModuleL(t)
    \/ WrapHandleL(t)
    \/ SetDocL(t)
    \/ RunInitializerL(t)

SpecModule == InitModule /\ [][NextModule]_vars

\* ------------------------------------------- properties of parse_fn_args
Returned == result.kind # "Pending"

Failed == Returned /\ result.kind # "Ok"

\* what the caller supplied, read off the inputs alone
NPositional == Len(args)

NKeyword == IF kwargs.present THEN Len(kwargs.items) ELSE 0

SuppliedKeys == IF kwargs.present THEN {kwargs.items[k].key : k \in 1..Len(kwargs.items)} ELSE {}

DeclaredNames == {params[j].name : j \in 1..Len(params)}

UnknownKeys == SuppliedKeys \ DeclaredNames

Excess == ~accept_args /\ ~accept_kwargs /\ NPositional + NKeyword > Len(params)

\* i is the 0-based index of a declared parameter
Indices == 0..(Len(params) - 1)

HasKeyword(i) == params[i + 1].name \in SuppliedKeys

GivenTwice(i) == HasKeyword(i) /\ i < NPositional

KwOnlyMissing(i) ==
  ~HasKeyword(i) /\ params[i + 1].kw_only /\ ~params[i + 1].is_optional

PositionalMissing(i) ==
  /\ ~HasKeyword(i) /\ ~params[i + 1].kw_only /\ ~params[i + 1].is_optional
  /\ i >= NPositional

Offending(i) == GivenTwice(i) \/ KwOnlyMissing(i) \/ PositionalMissing(i)

FirstOffender(i) == Offending(i) /\ \A j \in Indices : j < i => ~Offending(j)

IsDuplicateFor(i) ==
  result.kind = "DuplicateBinding" /\ result.name = params[i + 1].name /\ result.pos = i + 1

IsKwOnlyFor(i) ==
  result.kind = "MissingKeywordOnlyArgument" /\ result.name = params[i + 1].name

IsNotFoundFor(i) ==
  /\ result.kind = "MissingPositionalArgument"
  /\ result.name = params[i + 1].name /\ result.pos = i + 1

\* C1 (as stated): a parameter given both by keyword and at its positional
\* index always makes the call fail with DuplicateBinding naming it and
\* position i+1, whatever else is wrong with the call.
C1_AsStated == Returned => \A i \in Indices : GivenTwice(i) => IsDuplicateFor(i)

\* C1 (amended): a parameter given both by keyword and at its positional index
\* makes the call fail with DuplicateBinding naming it and position i+1,
\* provided the call is not rejected for its argument count and no parameter
\* of lower index is itself offending.
C1_DuplicateBinding ==
  Returned => \A i \in Indices :
    (GivenTwice(i) /\ ~Excess /\ FirstOffender(i)) => IsDuplicateFor(i)

\* a duplicate at a later index, with unknown keywords present as well
C1_Witness ==
  /\ Returned /\ ~Excess
  /\ \E i \in Indices : i > 0 /\ GivenTwice(i) /\ FirstOffender(i) /\ IsDuplicateFor(i)
  /\ UnknownKeys # {}

\* C2: TooManyArguments is raised exactly when both extras are refused and
\* nPositional + nKeyword exceeds the number of parameters, and it then
\* reports maximum = len(params) and given = nPositional + nKeyword.
C2_TooManyExactly ==
  Returned =>
    /\ (result.kind = "TooManyArguments") <=> Excess
    /\ Excess => (result.max = Len(params) /\ result.given = NPositional + NKeyword)

C2_Witness ==
  /\ Returned /\ Excess /\ result.kind = "TooManyArguments"
  /\ NKeyword > 0 /\ NPositional > 0 /\ result.max = Len(params)

\* C3 (as stated): a required keyword-only parameter without a keyword entry
\* always makes the call fail with MissingKeywordOnlyArgument naming it.
C3_AsStated == Returned => \A i \in Indices : KwOnlyMissing(i) => IsKwOnlyFor(i)

\* C3 (amended): a required keyword-only parameter without a keyword entry
\* makes the call fail with MissingKeywordOnlyArgument naming it, even when
\* a positional argument sits at its index, provided the call is not rejected
\* for its argument count and no parameter of lower index is itself offending.
C3_MissingKeywordOnly ==
  Returned => \A i \in Indices :
    (KwOnlyMissing(i) /\ ~Excess /\ FirstOffender(i)) => IsKwOnlyFor(i)

\* the keyword-only parameter is covered by a positional argument
C3_Witness ==
  /\ Returned /\ ~Excess
  /\ \E i \in Indices :
       KwOnlyMissing(i) /\ FirstOffender(i) /\ i < NPositional /\ IsKwOnlyFor(i)

\* C4 (as stated): a required, not keyword-only parameter with neither a
\* positional value at its index nor a keyword entry always makes the call
\* fail with MissingPositionalArgument naming it and position i+1.
C4_AsStated == Returned => \A i \in Indices : PositionalMissing(i) => IsNotFoundFor(i)

\* C4 (amended): such a parameter makes the call fail with
\* MissingPositionalArgument naming it and position i+1, provided the call is
\* not rejected for its argument count and no parameter of lower index is
\* itself offending.
C4_MissingPositional ==
  Returned => \A i \in Indices :
    (PositionalMissing(i) /\ ~Excess /\ FirstOffender(i)) => IsNotFoundFor(i)

C4_Witness ==
  /\ Returned /\ ~Excess
  /\ \E i \in Indices :
       i > 0 /\ PositionalMissing(i) /\ FirstOffender(i) /\ IsNotFoundFor(i)

IsUnexpectedKeyword ==
  result.kind = "UnexpectedKeywordArgument" /\ result.key \in UnknownKeys

\* C5 (as stated): a keyword name matching no declared parameter, with
\* accept_kwargs = false, always makes the call fail with
\* UnexpectedKeywordArgument naming a key that matches no parameter.
C5_AsStated == Returned => ((UnknownKeys # {} /\ ~accept_kwargs) => IsUnexpectedKeyword)

\* C5 (amended): such a keyword makes the call fail with
\* UnexpectedKeywordArgument naming a key that matches no parameter, provided
\* the call is not rejected for its argument count and no declared parameter
\* is offending; the error never names a key that matched a parameter.
C5_UnexpectedKeyword ==
  Returned =>
    /\ (UnknownKeys # {} /\ ~accept_kwargs /\ ~Excess /\ \A i \in Indices : ~Offending(i))
         => IsUnexpectedKeyword
    /\ result.kind = "UnexpectedKeywordArgument" => result.key \in UnknownKeys

\* an unknown key listed after a key that matched a parameter
C5_Witness ==
  /\ Returned /\ IsUnexpectedKeyword /\ ~accept_kwargs
  /\ Len(kwargs.items) > 1 /\ kwargs.items[1].key \in DeclaredNames

SuppliedValue(name) ==
  (CHOOSE it \in {kwargs.items[k] : k \in 1..Len(kwargs.items)} : it.key = name).value

PositionalValues == {args[j] : j \in 1..Len(args)}

\* C6: on success the output has one slot per parameter; slot i is the
\* keyword value for the parameter's name if there is one, else positional[i]
\* if the parameter is not keyword-only and i < nPositional, else unbound, and
\* unbound only for an optional parameter; a keyword-only slot never holds a
\* positional value.
C6_SuccessBinding ==
  result.kind = "Ok" =>
    /\ Len(output) = Len(params)
    /\ \A i \in Indices :
         /\ output[i + 1] =
              IF HasKeyword(i) THEN SuppliedValue(params[i + 1].name)
              ELSE IF ~params[i + 1].kw_only /\ i < NPositional THEN args[i + 1]
              ELSE None
         /\ output[i + 1] = None => params[i + 1].is_optional
         /\ params[i + 1].kw_only => output[i + 1] \notin PositionalValues

\* success with a slot bound from the keywords next to an unbound
\* keyword-only slot that a positional argument covers
C6_Witness ==
  /\ result.kind = "Ok"
  /\ \E i \in Indices : HasKeyword(i) /\ output[i + 1] = SuppliedValue(params[i + 1].name)
  /\ \E i \in Indices : params[i + 1].kw_only /\ i < NPositional /\ output[i + 1] = None

\* C10: when parse_fn_args returns an error the caller's output array is
\* as it was on entry, every slot unbound.
C10_NoSideEffects == Failed => \A i \in 1..Len(output) : output[i] = None

\* C11: the TooManyArguments message names the callable if known, the
\* maximum arity and the count given, and says "argument" when the maximum
\* arity is exactly 1 and "arguments" for every other arity.
C11_Pluralization ==
  result.kind = "TooManyArguments" =>
    /\ result.callee = (IF fname = None THEN "function" ELSE fname)
    /\ result.max = Len(params)
    /\ result.given = NPositional + NKeyword
    /\ (result.plural = "") <=> (Len(params) = 1)

ErrorNamesParam(i) ==
  \/ GivenTwice(i) /\ IsDuplicateFor(i)
  \/ KwOnlyMissing(i) /\ IsKwOnlyFor(i)
  \/ PositionalMissing(i) /\ IsNotFoundFor(i)

\* C13: the error is fixed by the order of the checks: TooManyArguments
\* before any parameter; then the offending parameter of lowest index, never
\* a later one; UnexpectedKeywordArgument only when no parameter offends.
C13_CheckOrder ==
  Returned =>
    /\ Excess => result.kind = "TooManyArguments"
    /\ ~Excess => \A i \in Indices : FirstOffender(i) => ErrorNamesParam(i)
    /\ result.kind \in {"DuplicateBinding", "MissingKeywordOnlyArgument",
                        "MissingPositionalArgument"} =>
         (~Excess /\ \E i \in Indices : FirstOffender(i) /\ ErrorNamesParam(i))
    /\ result.kind = "UnexpectedKeywordArgument" =>
         (~Excess /\ \A i \in Indices : ~Offending(i))

\* two offending parameters and an unknown keyword: the first one is named
C13_Witness ==
  /\ Returned /\ ~Excess /\ UnknownKeys # {} /\ ~accept_kwargs
  /\ \E i, j \in Indices :
       i < j /\ FirstOffender(i) /\ Offending(j) /\ ErrorNamesParam(i)

\* C17: on success with accept_args = false no positional argument is
\* dropped: every positional index j < nPositional is the value bound to
\* slot j of the output.
C17_NoPositionalDropped ==
  (result.kind = "Ok" /\ ~accept_args) =>
    \A j \in 0..(NPositional - 1) : j < Len(output) /\ output[j + 1] = args[j + 1]

\* C18: a keyword-only parameter supplied by keyword is never rejected as
\* DuplicateBinding, whatever the number of positional arguments; when the
\* loop reaches it, its keyword value is bound and it raises no error.
C18_KwOnlyNeverDuplicate ==
  Returned => \A i \in Indices :
    (params[i + 1].kw_only /\ HasKeyword(i)) =>
      /\ ~IsDuplicateFor(i)
      /\ (~Excess /\ \A j \in Indices : j < i => ~Offending(j)) =>
           (output[i + 1] = SuppliedValue(params[i + 1].name) /\ result.name # params[i + 1].name)

\* --------------------------------------------- properties of make_module
Occurrences(l, e) == Cardinality({k \in 1..Len(l) : l[k] = e})

\* every occurrence of b in l has an occurrence of a before it
Precedes(l, a, b) ==
  \A k \in 1..Len(l) : l[k] = b => \E j \in 1..(k - 1) : l[j] = a

Created(t) == module[t] \notin {"unset", "null"}

\* C7: when module creation and handle wrapping succeeded and the initializer
\* returned a failure, make_module (Py_3) returns null and has made exactly
\* one restore call, before returning.
C7_InitializerFailure ==
  \A t \in Threads :
    (pc[t] = "returned" /\ create_ok[t] /\ wrap_ok[t] /\ doc_ok[t] /\ ~init_ok[t]) =>
      /\ ret[t] = "null"
      /\ Occurrences(log[t], "restore") = 1
      /\ Precedes(log[t], "restore", "return")

C7_Witness ==
  \E t \in Threads :
    /\ pc[t] = "returned" /\ ~init_ok[t] /\ Occurrences(log[t], "init") = 1
    /\ ret[t] = "null" /\ Occurrences(log[t], "restore") = 1

\* C8: whenever make_module (Py_3) returns null after the module object was
\* created, it reported the error to the runtime before returning.
C8_NullAfterCreateReported ==
  \A t \in Threads :
    (pc[t] = "returned" /\ ret[t] = "null" /\ Created(t)) =>
      /\ Occurrences(log[t], "restore") >= 1
      /\ Precedes(log[t], "restore", "return")

\* null returned on the handle validation path
C8_Witness ==
  \E t \in Threads :
    /\ pc[t] = "returned" /\ ret[t] = "null" /\ Created(t) /\ ~wrap_ok[t]
    /\ Occurrences(log[t], "restore") = 1

ScopeReleasedOnce(p, l) ==
  /\ p # "open"
  /\ Occurrences(l, "open") = 1 =>
       /\ p = "released"
       /\ Occurrences(l, "release") = 1
       /\ Precedes(l, "release", "return")

\* C9: in both variants, once make_module has left (by return, or by the
\* unwinding of the set-doc panic) a scope it opened has been released
\* exactly once, and no scope is left held.
C9_ScopeReleased ==
  \A t \in Threads :
    /\ pc[t] \in {"returned", "panicked"} => ScopeReleasedOnce(pool[t], log[t])
    /\ pcL[t] \in {"returned", "panicked"} => ScopeReleasedOnce(poolL[t], logL[t])

\* an early failure with the scope open, in each variant
C9_Witness ==
  /\ \E t \in Threads : pc[t] = "returned" /\ ~wrap_ok[t] /\ pool[t] = "released"
  /\ \E t \in Threads : pcL[t] = "returned" /\ ~create_ok[t] /\ poolL[t] = "released"

\* C12: when the initializer returns success, make_module (Py_3) returns the
\* created module object's pointer, which is not null, and has made no
\* restore call.
C12_InitializerSuccess ==
  \A t \in Threads :
    (pc[t] = "returned" /\ create_ok[t] /\ wrap_ok[t] /\ doc_ok[t] /\ init_ok[t]) =>
      /\ ret[t] \notin {"null", "unset"}
      /\ ret[t] = module[t]
      /\ Occurrences(log[t], "restore") = 0

C12_Witness ==
  \E t \in Threads :
    /\ pc[t] = "returned" /\ init_ok[t] /\ Occurrences(log[t], "init") = 1
    /\ ret[t] = module[t] /\ Created(t)

StepOrder == <<"create", "open", "wrap", "doc", "init">>

Steps(l) == SelectSeq(l, LAMBDA e : e \in {StepOrder[k] : k \in 1..Len(StepOrder)})

\* C14: make_module (Py_3) takes its steps in the order create-module,
\* open-scope, wrap-handle, set-doc, run-initializer and stops at the first
\* failure: the initializer runs at most once, after the other four
\* succeeded and while the scope is open; when module creation fails it
\* returns null without running the initializer or making a restore call.
C14_LinearOrder ==
  \A t \in Threads :
    /\ Len(Steps(log[t])) <= Len(StepOrder)
    /\ \A k \in 1..Len(Steps(log[t])) : Steps(log[t])[k] = StepOrder[k]
    /\ \A k \in 1..Len(log[t]) : log[t][k] = "init" =>
         /\ create_ok[t] /\ wrap_ok[t] /\ doc_ok[t]
         /\ \A j \in 1..(k - 1) : log[t][j] \notin {"release", "create_failed",
                                                    "wrap_failed", "doc_failed"}
    /\ (pc[t] \notin {"start", "create"} /\ ~create_ok[t]) =>
         /\ pc[t] = "returned" /\ ret[t] = "null"
         /\ Occurrences(log[t], "init") = 0
         /\ Occurrences(log[t], "restore") = 0
         /\ Occurrences(log[t], "open") = 0

\* one call ran all five steps, the other stopped at module creation
C14_Witness ==
  \E t, u \in Threads :
    /\ Steps(log[t]) = StepOrder /\ pc[t] = "returned"
    /\ ~create_ok[u] /\ pc[u] = "returned" /\ ret[u] = "null"

\* C15: when attaching the documentation attribute fails, make_module (both
\* variants) neither returns null nor succeeds: it makes no restore call,
\* never runs the initializer, and ends in the panic.
C15_SetDocFatal ==
  \A t \in Threads :
    /\ Occurrences(log[t], "doc_failed") > 0 =>
         /\ pc[t] = "panicked" /\ ret[t] = "unset"
         /\ Occurrences(log[t], "restore") = 0
         /\ Occurrences(log[t], "init") = 0
    /\ Occurrences(logL[t], "doc_failed") > 0 =>
         /\ pcL[t] = "panicked"
         /\ Occurrences(logL[t], "restore") = 0
         /\ Occurrences(logL[t], "init") = 0

C15_Witness ==
  \E t \in Threads :
    /\ ~doc_ok[t] /\ pc[t] = "panicked" /\ pcL[t] = "panicked"
    /\ Occurrences(log[t], "doc_failed") = 1 /\ Occurrences(logL[t], "doc_failed") = 1

Terminal(p) == p \in {"returned", "panicked"}

\* C16: on the same step outcomes, once both variants have ended, the legacy
\* variant has run the initializer exactly when the Py_3 variant has, and has
\* made a restore call exactly when the Py_3 variant returned null after a
\* successful module creation.
C16_VariantsAgree ==
  \A t \in Threads :
    (Terminal(pc[t]) /\ Terminal(pcL[t])) =>
      /\ Occurrences(logL[t], "init") = Occurrences(log[t], "init")
      /\ (Occurrences(logL[t], "restore") > 0) <=> (ret[t] = "null" /\ Created(t))
      /\ Occurrences(logL[t], "restore") = Occurrences(log[t], "restore")

\* both variants ended on an initializer failure
C16_Witness ==
  \E t \in Threads :
    /\ pc[t] = "returned" /\ pcL[t] = "returned" /\ ~init_ok[t]
    /\ Occurrences(log[t], "init") = 1 /\ Occurrences(logL[t], "init") = 1
    /\ Occurrences(logL[t], "restore") = 1 /\ ret[t] = "null"

\* C19: when two calls with different names interleave before they open
\* their scopes, each call's module object is created with the name passed
\* to that call.
C19_OwnName == \A t \in Threads : Created(t) => module[t] = ModName(t)

====
